---- MODULE Spec2Model ----
(***************************************************************************)
(* Question/answer CRUD service: the request handlers of                   *)
(* handlers/handlers_inner.rs over the data-access objects of              *)
(* persistance/questions_dao.rs and persistance/answers_dao.rs, which run  *)
(* one SQL statement each against a PostgreSQL database.                   *)
(* The router of main.rs serves the handlers of handlers/mod.rs, which     *)
(* answer with fixed records.  Spec runs one call after another; SpecConc  *)
(* runs two calls at once.                                                 *)
(*                                                                         *)
(* Strings are sequences of symbols; a piece of literal text is one        *)
(* symbol, so format!("lit {}", s) is <<"lit ">> \o s.  A UUID is a tuple  *)
(* of lower-case hex digits; the 8-4-4-4-12 layout of its text is          *)
(* shortened to two groups of one digit.                                   *)
(***************************************************************************)
EXTENDS Integers, Sequences, FiniteSets, TLC

VARIABLES questions, answers, issued, now, last, scenario, tasks

vars == <<questions, answers, issued, now, last, scenario, tasks>>

(* ------------------------------ bounds -------------------------------- *)

\* how many identifiers the database generates in one run
MaxIds == 3

\* how far the database clock advances in one run
MaxClock == 1

(* ------------------------------ strings ------------------------------- *)

Str(lit) == <<lit>>

\* s occurs in msg as a contiguous run of symbols
Contains(msg, s) ==
    \E i \in 0..(Len(msg) - Len(s)) :
        \A j \in 1..Len(s) : msg[i + j] = s[j]

HexLower == <<"0", "a", "b">>

HexUpper == <<"0", "A", "B">>

IsHex(c) == \E i \in 1..Len(HexLower) : c = HexLower[i] \/ c = HexUpper[i]

ToLowerHex(c) == HexLower[CHOOSE i \in 1..Len(HexLower) : c = HexLower[i] \/ c = HexUpper[i]]

ToUpperHex(c) == HexUpper[CHOOSE i \in 1..Len(HexLower) : c = HexLower[i]]

NoUuid == <<>>

HyphenatedOk(s) == Len(s) = 3 /\ IsHex(s[1]) /\ s[2] = "-" /\ IsHex(s[3])

\* Uuid::parse_str: the hyphenated, simple, braced and URN forms, hex digits
\* in either case; NoUuid stands for Err
parse_str(s) ==
    IF HyphenatedOk(s) THEN <<ToLowerHex(s[1]), ToLowerHex(s[3])>>
    ELSE IF Len(s) = 2 /\ IsHex(s[1]) /\ IsHex(s[2])
        THEN <<ToLowerHex(s[1]), ToLowerHex(s[2])>>
    ELSE IF Len(s) = 5 /\ s[1] = "{" /\ s[5] = "}" /\ HyphenatedOk(SubSeq(s, 2, 4))
        THEN <<ToLowerHex(s[2]), ToLowerHex(s[4])>>
    ELSE IF Len(s) = 4 /\ s[1] = "urn:uuid:" /\ HyphenatedOk(SubSeq(s, 2, 4))
        THEN <<ToLowerHex(s[2]), ToLowerHex(s[4])>>
    ELSE NoUuid

\* Uuid's Display: lower-case hyphenated
uuid_to_string(u) == <<u[1], "-", u[2]>>

Digits == <<"0", "1", "2", "3", "4", "5", "6", "7", "8", "9">>

\* the timestamp's Display
timestamp_to_string(t) == <<"1970-01-01 00:00:0", Digits[t + 1]>>

(* ------------------------------ results ------------------------------- *)

Ok(v) == [tag |-> "Ok", val |-> v]

Err(e) == [tag |-> "Err", err |-> e]

Unit == <<>>

InvalidUUID(msg) == [kind |-> "InvalidUUID", msg |-> msg]

Other(cause) == [kind |-> "Other", cause |-> cause]

BadRequest(msg) == [kind |-> "BadRequest", msg |-> msg]

InternalError(msg) == [kind |-> "InternalError", msg |-> msg]

default_internal_error == InternalError(Str("Something went wrong! Please try again."))

(* ------------------------------ database ------------------------------ *)

FOREIGN_KEY_VIOLATION == "FOREIGN_KEY_VIOLATION"

\* sqlx::Error: Database(e) with e.code() = Some(code) or None (<<>>), or
\* another variant
DatabaseError(code, text) == [variant |-> "Database", code |-> code, text |-> Str(text)]

IoError(text) == [variant |-> "Io", code |-> <<>>, text |-> Str(text)]

NoDbError == [variant |-> "None", code |-> <<>>, text |-> <<>>]

ForeignKeyError == DatabaseError(<<FOREIGN_KEY_VIOLATION>>, "violates foreign key constraint")

\* what the driver may report for a statement, whatever the tables hold
Faults ==
    { ForeignKeyError,
      DatabaseError(<<"UNIQUE_VIOLATION">>, "duplicate key"),
      DatabaseError(<<>>, "no sqlstate"),
      IoError("connection reset") }

UuidOf(i) == <<HexLower[(i \div Len(HexLower)) + 1], HexLower[(i % Len(HexLower)) + 1]>>

UuidPool == { UuidOf(i) : i \in 1..MaxIds }

\* the column default gen_random_uuid(): an identifier not issued before (the
\* pool is taken in order, and nothing is generated once it is used up)
Generated == { UuidOf(i) : i \in { j \in 1..MaxIds : j = Cardinality(issued) + 1 } }

\* every enumeration of the rows S: a SELECT without ORDER BY
RowOrders(S) == { s \in [1..Cardinality(S) -> S] : { s[i] : i \in 1..Cardinality(S) } = S }

\* what one statement did: its result, the tables after it, and the
\* sqlx::Error it returned (NoDbError when it returned rows); fault tells a
\* failure of the driver from an answer of the database to the statement
Outcome(res, q, a, i) ==
    [res |-> res, questions |-> q, answers |-> a, issued |-> i, queried |-> 1,
     dberr |-> IF res.tag = "Err" THEN res.err ELSE NoDbError, fault |-> FALSE]

\* the driver reports e and the tables stay as they are
Failed(e) == [Outcome(Err(e), questions, answers, issued) EXCEPT !.fault = TRUE]

\* a DAO call that returned before sending a statement
NotQueried(res) ==
    [res |-> res, questions |-> questions, answers |-> answers, issued |-> issued,
     queried |-> 0, dberr |-> NoDbError, fault |-> FALSE]

\* INSERT INTO questions ( title, description ) VALUES ( $1, $2 ) RETURNING *
\* question_uuid and created_at are the column defaults
insert_into_questions(title, description) ==
    { Failed(f) : f \in Faults }
    \cup
    { Outcome(Ok(row), questions \cup {row}, answers, issued \cup {row.question_uuid}) :
        row \in { [question_uuid |-> u, title |-> title, description |-> description,
                   created_at |-> now] : u \in Generated } }

\* INSERT INTO answers ( question_uuid, content ) VALUES ( $1, $2 ) RETURNING *
\* answers.question_uuid is a foreign key into questions
insert_into_answers(question_uuid, content) ==
    { Failed(f) : f \in Faults }
    \cup
    IF \E q \in questions : q.question_uuid = question_uuid
    THEN { Outcome(Ok(row), questions, answers \cup {row}, issued \cup {row.answer_uuid}) :
            row \in { [answer_uuid |-> u, question_uuid |-> question_uuid,
                       content |-> content, created_at |-> now] : u \in Generated } }
    ELSE { Outcome(Err(ForeignKeyError), questions, answers, issued) }

\* DELETE FROM questions WHERE question_uuid = $1; the answers of a deleted
\* question go with it
delete_from_questions(uuid) ==
    { Failed(f) : f \in Faults }
    \cup
    { Outcome(Ok(Unit),
              { q \in questions : q.question_uuid # uuid },
              { a \in answers : a.question_uuid # uuid },
              issued) }

\* DELETE FROM answers WHERE answer_uuid = $1
delete_from_answers(uuid) ==
    { Failed(f) : f \in Faults }
    \cup
    { Outcome(Ok(Unit), questions, { a \in answers : a.answer_uuid # uuid }, issued) }

\* SELECT * FROM questions
select_from_questions ==
    { Failed(f) : f \in Faults }
    \cup
    { Outcome(Ok(rows), questions, answers, issued) : rows \in RowOrders(questions) }

\* SELECT * FROM answers WHERE question_uuid = $1
select_from_answers(uuid) ==
    { Failed(f) : f \in Faults }
    \cup
    { Outcome(Ok(rows), questions, answers, issued) :
        rows \in RowOrders({ a \in answers : a.question_uuid = uuid }) }

(* -------------------------- data-access objects ----------------------- *)

QuestionDetail(r) ==
    [question_uuid |-> uuid_to_string(r.question_uuid), title |-> r.title,
     description |-> r.description, created_at |-> timestamp_to_string(r.created_at)]

AnswerDetail(r) ==
    [answer_uuid |-> uuid_to_string(r.answer_uuid),
     question_uuid |-> uuid_to_string(r.question_uuid),
     content |-> r.content, created_at |-> timestamp_to_string(r.created_at)]

\* the outcome o with its result replaced
WithRes(o, res) == [o EXCEPT !.res = res]

\* records.iter().map(..).collect()
QuestionDetails(rows) == [i \in 1..Len(rows) |-> QuestionDetail(rows[i])]

AnswerDetails(rows) == [i \in 1..Len(rows) |-> AnswerDetail(rows[i])]

\* faulty variant: create_question answering with the nil UUID in place of the
\* identifier of the row
QuestionsDaoImpl_create_question_nil(question) ==
    { WithRes(o, IF o.res.tag = "Ok"
                 THEN Ok([QuestionDetail(o.res.val) EXCEPT
                            !.question_uuid = uuid_to_string(<<HexLower[1], HexLower[1]>>)])
                 ELSE Err(Other(o.res.err))) :
        o \in insert_into_questions(question.title, question.description) }

\* faulty variant: create_question reading the columns back in the wrong order
QuestionsDaoImpl_create_question_swapped(question) ==
    { WithRes(o, IF o.res.tag = "Ok"
                 THEN Ok([QuestionDetail(o.res.val) EXCEPT !.title = o.res.val.description,
                                                            !.description = o.res.val.title])
                 ELSE Err(Other(o.res.err))) :
        o \in insert_into_questions(question.title, question.description) }

QuestionsDaoImpl_create_question(question) ==
    { WithRes(o, IF o.res.tag = "Ok" THEN Ok(QuestionDetail(o.res.val))
                 ELSE Err(Other(o.res.err))) :
        o \in insert_into_questions(question.title, question.description) }

\* faulty variant: delete_question without its WHERE clause
QuestionsDaoImpl_delete_question_all(question_uuid) ==
    IF parse_str(question_uuid) = NoUuid
    THEN { NotQueried(Err(InvalidUUID(Str("Could not parse question UUID: ") \o question_uuid))) }
    ELSE { WithRes(o, IF o.res.tag = "Ok" THEN Ok(Unit) ELSE Err(Other(o.res.err))) :
            o \in { Failed(f) : f \in Faults }
                  \cup { Outcome(Ok(Unit), {}, {}, issued) } }

\* faulty variant: delete_question treating "no row deleted" as an invalid identifier
QuestionsDaoImpl_delete_question_must_exist(question_uuid) ==
    IF parse_str(question_uuid) = NoUuid
    THEN { NotQueried(Err(InvalidUUID(Str("Could not parse question UUID: ") \o question_uuid))) }
    ELSE { WithRes(o, IF o.res.tag = "Err" THEN Err(Other(o.res.err))
                      ELSE IF o.questions = questions
                          THEN Err(InvalidUUID(Str("Invalid question UUID: ") \o question_uuid))
                          ELSE Ok(Unit)) :
            o \in delete_from_questions(parse_str(question_uuid)) }

QuestionsDaoImpl_delete_question(question_uuid) ==
    IF parse_str(question_uuid) = NoUuid
    THEN { NotQueried(Err(InvalidUUID(Str("Could not parse question UUID: ") \o question_uuid))) }
    ELSE { WithRes(o, IF o.res.tag = "Ok" THEN Ok(Unit) ELSE Err(Other(o.res.err))) :
            o \in delete_from_questions(parse_str(question_uuid)) }

QuestionsDaoImpl_get_questions ==
    { WithRes(o, IF o.res.tag = "Ok" THEN Ok(QuestionDetails(o.res.val))
                 ELSE Err(Other(o.res.err))) :
        o \in select_from_questions }

\* faulty variant: the closure leaving the identifier out of its message
create_answer_map_err_no_id(e, answer) ==
    IF e.variant = "Database"
    THEN IF e.code # <<>> /\ e.code[1] = FOREIGN_KEY_VIOLATION
         THEN InvalidUUID(Str("Invalid question UUID"))
         ELSE Other(e)
    ELSE Other(e)

\* faulty variant: the closure without its test for the foreign-key code
create_answer_map_err_all_other(e, answer) == Other(e)

\* the map_err closure of create_answer
create_answer_map_err(e, answer) ==
    IF e.variant = "Database"
    THEN IF e.code # <<>> /\ e.code[1] = FOREIGN_KEY_VIOLATION
         THEN InvalidUUID(Str("Invalid question UUID: ") \o answer.question_uuid)
         ELSE Other(e)
    ELSE Other(e)

\* faulty variant: create_answer answering with a record of its own making when
\* the insert fails
AnswersDaoImpl_create_answer_unwrap_or(answer) ==
    IF parse_str(answer.question_uuid) = NoUuid
    THEN { NotQueried(Err(InvalidUUID(Str("Could not parse answer UUID: ") \o answer.question_uuid))) }
    ELSE { WithRes(o, IF o.res.tag = "Ok" THEN Ok(AnswerDetail(o.res.val))
                      ELSE Ok(AnswerDetail([answer_uuid |-> <<HexLower[1], HexLower[1]>>,
                                            question_uuid |-> parse_str(answer.question_uuid),
                                            content |-> answer.content,
                                            created_at |-> now]))) :
            o \in insert_into_answers(parse_str(answer.question_uuid), answer.content) }

\* faulty variant: create_answer returning a text that does not parse as Other
AnswersDaoImpl_create_answer_parse_other(answer) ==
    IF parse_str(answer.question_uuid) = NoUuid
    THEN { NotQueried(Err(Other(IoError("invalid character")))) }
    ELSE { WithRes(o, IF o.res.tag = "Ok" THEN Ok(AnswerDetail(o.res.val))
                      ELSE Err(create_answer_map_err(o.res.err, answer))) :
            o \in insert_into_answers(parse_str(answer.question_uuid), answer.content) }

AnswersDaoImpl_create_answer(answer) ==
    IF parse_str(answer.question_uuid) = NoUuid
    THEN { NotQueried(Err(InvalidUUID(Str("Could not parse answer UUID: ") \o answer.question_uuid))) }
    ELSE { WithRes(o, IF o.res.tag = "Ok" THEN Ok(AnswerDetail(o.res.val))
                      ELSE Err(create_answer_map_err(o.res.err, answer))) :
            o \in insert_into_answers(parse_str(answer.question_uuid), answer.content) }

\* faulty variant: delete_answer with the wrong column in its WHERE clause
AnswersDaoImpl_delete_answer_of_question(answer_uuid) ==
    IF parse_str(answer_uuid) = NoUuid
    THEN { NotQueried(Err(InvalidUUID(Str("Could not parse answer UUID: ") \o answer_uuid))) }
    ELSE { WithRes(o, IF o.res.tag = "Ok" THEN Ok(Unit) ELSE Err(Other(o.res.err))) :
            o \in { Failed(f) : f \in Faults }
                  \cup { Outcome(Ok(Unit), questions,
                                 { a \in answers : a.question_uuid # parse_str(answer_uuid) },
                                 issued) } }

\* faulty variant: delete_answer going on with the nil UUID when the text does not
\* parse (unwrap_or_default)
AnswersDaoImpl_delete_answer_nil(answer_uuid) ==
    { WithRes(o, IF o.res.tag = "Ok" THEN Ok(Unit) ELSE Err(Other(o.res.err))) :
        o \in delete_from_answers(IF parse_str(answer_uuid) = NoUuid
                                  THEN <<HexLower[1], HexLower[1]>>
                                  ELSE parse_str(answer_uuid)) }

AnswersDaoImpl_delete_answer(answer_uuid) ==
    IF parse_str(answer_uuid) = NoUuid
    THEN { NotQueried(Err(InvalidUUID(Str("Could not parse answer UUID: ") \o answer_uuid))) }
    ELSE { WithRes(o, IF o.res.tag = "Ok" THEN Ok(Unit) ELSE Err(Other(o.res.err))) :
            o \in delete_from_answers(parse_str(answer_uuid)) }

\* faulty variant: get_answers treating "no rows" as an invalid identifier
AnswersDaoImpl_get_answers_must_exist(question_uuid) ==
    IF parse_str(question_uuid) = NoUuid
    THEN { NotQueried(Err(InvalidUUID(Str("Could not parse question with UUID: ") \o question_uuid))) }
    ELSE { WithRes(o, IF o.res.tag = "Err" THEN Err(Other(o.res.err))
                      ELSE IF o.res.val = <<>>
                          THEN Err(InvalidUUID(Str("Invalid question UUID: ") \o question_uuid))
                          ELSE Ok(AnswerDetails(o.res.val))) :
            o \in select_from_answers(parse_str(question_uuid)) }

\* faulty variant: get_answers without its WHERE clause
AnswersDaoImpl_get_answers_all(question_uuid) ==
    IF parse_str(question_uuid) = NoUuid
    THEN { NotQueried(Err(InvalidUUID(Str("Could not parse question with UUID: ") \o question_uuid))) }
    ELSE { WithRes(o, IF o.res.tag = "Ok" THEN Ok(AnswerDetails(o.res.val))
                      ELSE Err(Other(o.res.err))) :
            o \in { Failed(f) : f \in Faults }
                  \cup { Outcome(Ok(rows), questions, answers, issued) :
                            rows \in RowOrders(answers) } }

AnswersDaoImpl_get_answers(question_uuid) ==
    IF parse_str(question_uuid) = NoUuid
    THEN { NotQueried(Err(InvalidUUID(Str("Could not parse question with UUID: ") \o question_uuid))) }
    ELSE { WithRes(o, IF o.res.tag = "Ok" THEN Ok(AnswerDetails(o.res.val))
                      ELSE Err(Other(o.res.err))) :
            o \in select_from_answers(parse_str(question_uuid)) }

(* ------------------------------ handlers ------------------------------ *)

\* what a handler did with the DAO's result r: its own result, and what it
\* wrote with error!
Handled(res, logged) == [res |-> res, logged |-> logged]

\* faulty variant: create_answer answering an invalid reference like any other error
create_answer_uniform(r) ==
    IF r.tag = "Ok" THEN Handled(Ok(r.val), <<>>)
    ELSE Handled(Err(default_internal_error), <<r.err>>)

\* faulty variant: delete_question telling the caller about an invalid identifier
delete_question_bad_request(r) ==
    IF r.tag = "Err"
    THEN IF r.err.kind = "InvalidUUID" THEN Handled(Err(BadRequest(r.err.msg)), <<>>)
         ELSE Handled(Err(default_internal_error), <<>>)
    ELSE Handled(Ok(Unit), <<>>)

\* faulty variant: read_questions passing the cause's text on to the caller
read_questions_leak(r) ==
    IF r.tag = "Ok" THEN Handled(Ok(r.val), <<>>)
    ELSE IF r.err.kind = "Other" THEN Handled(Err(InternalError(r.err.cause.text)), <<r.err>>)
    ELSE Handled(Err(default_internal_error), <<r.err>>)

\* faulty variant: read_answers dropping the first record
read_answers_tail(r) ==
    IF r.tag = "Ok" THEN Handled(Ok(IF r.val = <<>> THEN r.val ELSE Tail(r.val)), <<>>)
    ELSE Handled(Err(default_internal_error), <<r.err>>)

create_question(r) ==
    IF r.tag = "Ok" THEN Handled(Ok(r.val), <<>>)
    ELSE Handled(Err(default_internal_error), <<r.err>>)

read_questions(r) ==
    IF r.tag = "Ok" THEN Handled(Ok(r.val), <<>>)
    ELSE Handled(Err(default_internal_error), <<r.err>>)

delete_question(r) ==
    IF r.tag = "Err" THEN Handled(Err(default_internal_error), <<>>)
    ELSE Handled(Ok(Unit), <<>>)

create_answer(r) ==
    IF r.tag = "Ok" THEN Handled(Ok(r.val), <<>>)
    ELSE IF r.err.kind = "InvalidUUID"
        THEN Handled(Err(BadRequest(r.err.msg)), <<r.err>>)
        ELSE Handled(Err(default_internal_error), <<r.err>>)

read_answers(r) ==
    IF r.tag = "Ok" THEN Handled(Ok(r.val), <<>>)
    ELSE Handled(Err(default_internal_error), <<r.err>>)

delete_answer(r) ==
    IF r.tag = "Err" THEN Handled(Err(default_internal_error), <<>>)
    ELSE Handled(Ok(Unit), <<>>)

(* ------------------------------- inputs ------------------------------- *)

Questions ==
    { [title |-> Str("t"), description |-> Str("d")],
      [title |-> Str("test title"), description |-> Str("test description")] }

Contents == { Str("c") }

NotAUuid == <<"n", "o", "t", "-", "a", "-", "u", "u", "i", "d">>

\* identifier texts that do not parse
Malformed == { NotAUuid, <<>>, <<"a", "-", "g">> }

\* other spellings of identifiers of the pool: upper case, and without hyphen
Spellings ==
    { <<ToUpperHex(UuidOf(1)[1]), "-", ToUpperHex(UuidOf(1)[2])>>,
      <<UuidOf(2)[1], UuidOf(2)[2]>> }

IdStrings == { uuid_to_string(u) : u \in UuidPool } \cup Spellings \cup Malformed

AnswerInputs == { [question_uuid |-> q, content |-> c] : q \in IdStrings, c \in Contents }

(* -------------------------- routed handlers -------------------------- *)

\* "00000000-0000-0000-0000-000000000000"
NilUuidText == uuid_to_string(<<HexLower[1], HexLower[1]>>)

\* the bodies of handlers/mod.rs, which the router of main.rs serves; Json(v)
\* is the response body v, and the descriptions and contents, which differ
\* from record to record, are cut to their first and last words

\* faulty variant: create_question answering with the title of the request
handlers_create_question_echo(question) ==
    [question_uuid |-> NilUuidText, title |-> question.title,
     description |-> Str("Lorem ipsum .. Justo nec ultrices dui sapien."),
     created_at |-> Str("Jan 1, 1970")]

handlers_create_question(question) ==
    [question_uuid |-> NilUuidText, title |-> Str("Lorem ipsum"),
     description |-> Str("Lorem ipsum .. Justo nec ultrices dui sapien."),
     created_at |-> Str("Jan 1, 1970")]

handlers_read_questions ==
    << [question_uuid |-> NilUuidText, title |-> Str("Lorem ipsum"),
        description |-> Str("Lorem ipsum .. Proin gravida hendrerit lectus a."),
        created_at |-> Str("Jan 1, 1970")],
       [question_uuid |-> NilUuidText, title |-> Str("Lorem ipsum"),
        description |-> Str("Lorem ipsum .. a pellentesque sit amet porttitor eget."),
        created_at |-> Str("Jan 1, 1970")] >>

handlers_delete_question(question_uuid) == Unit

handlers_create_answer(answer) ==
    [answer_uuid |-> NilUuidText, question_uuid |-> NilUuidText,
     content |-> Str("Lorem ipsum .. sit amet mattis vulputate enim nulla."),
     created_at |-> Str("Jan 1, 1970")]

handlers_read_answers ==
    << [answer_uuid |-> NilUuidText, question_uuid |-> NilUuidText,
        content |-> Str("Lorem ipsum .. Diam sit amet nisl suscipit."),
        created_at |-> Str("Jan 1, 1970")],
       [answer_uuid |-> NilUuidText, question_uuid |-> NilUuidText,
        content |-> Str("Lorem ipsum .. leo integer malesuada nunc vel."),
        created_at |-> Str("Jan 1, 1970")] >>

handlers_delete_answer(answer_uuid) == Unit

(* -------------------------------- mocks ------------------------------- *)

\* the responses the tests script into QuestionsDaoMock and AnswersDaoMock
MockErrors ==
    { Err(InvalidUUID(Str("test"))), Err(InvalidUUID(<<>>)),
      Err(Other(IoError("oh no!"))), Err(Other(IoError("connection reset"))) }

MockQuestionDetail ==
    [question_uuid |-> Str("123"), title |-> Str("test title"),
     description |-> Str("test description"), created_at |-> Str("now")]

MockAnswerDetail ==
    [answer_uuid |-> Str("456"), question_uuid |-> Str("123"),
     content |-> Str("test content"), created_at |-> Str("now")]

Mocked(responses) == { NotQueried(r) : r \in responses }

QuestionsDaoMock_create_question == Mocked({ Ok(MockQuestionDetail) } \cup MockErrors)

QuestionsDaoMock_delete_question == Mocked({ Ok(Unit) } \cup MockErrors)

QuestionsDaoMock_get_questions ==
    Mocked({ Ok(<<MockQuestionDetail>>), Ok(<<>>) } \cup MockErrors)

AnswersDaoMock_create_answer == Mocked({ Ok(MockAnswerDetail) } \cup MockErrors)

AnswersDaoMock_delete_answer == Mocked({ Ok(Unit) } \cup MockErrors)

AnswersDaoMock_get_answers ==
    Mocked({ Ok(<<MockAnswerDetail>>), Ok(<<>>) } \cup MockErrors)

(* ------------------------------- actions ------------------------------ *)

NoCall ==
    [op |-> "none", dao |-> "none", arg |-> <<>>, calls |-> 0, queried |-> 0,
     dberr |-> NoDbError, fault |-> FALSE, dbres |-> Ok(Unit), res |-> Ok(Unit),
     logged |-> <<>>]

\* the caller's place in the sequence "create a question, create an answer
\* to it, create an answer to not-a-uuid, delete the question": how many of
\* its calls it has made in a row, and the question_uuid it was given
NotStarted == [step |-> 0, question_uuid |-> <<>>]

\* the caller's place after the call l: a call that is the next of the
\* sequence moves it on, a create_question starts it again, any other call
\* ends it; a call on which the driver failed is no call of the sequence
ScenarioAfter(s, l) ==
    IF l.dao # "impl" \/ l.fault THEN NotStarted
    ELSE IF l.op = "create_question"
        THEN [step |-> 1,
              question_uuid |-> IF l.res.tag = "Ok" THEN l.res.val.question_uuid ELSE <<>>]
    ELSE IF s.step = 1 /\ l.op = "create_answer" /\ l.arg.question_uuid = s.question_uuid
        THEN [s EXCEPT !.step = 2]
    ELSE IF s.step = 2 /\ l.op = "create_answer" /\ l.arg.question_uuid = NotAUuid
        THEN [s EXCEPT !.step = 3]
    ELSE IF s.step = 3 /\ l.op = "delete_question" /\ l.arg = s.question_uuid
        THEN [s EXCEPT !.step = 4]
    ELSE NotStarted

\* two requests served at once, each by a task of the runtime
Tasks == {1, 2}

\* a task serving no request
Idle ==
    [pc |-> "idle", op |-> "none", arg |-> <<>>, fault |-> FALSE, dbres |-> Ok(Unit),
     res |-> Ok(Unit), overlap |-> FALSE]

Init ==
    /\ questions = {}
    /\ answers = {}
    /\ issued = {}
    /\ now = 0
    /\ last = NoCall
    /\ scenario = NotStarted
    /\ tasks = [t \in Tasks |-> Idle]

\* the database clock never runs backwards, and may stand still between two
\* statements
Tick ==
    /\ now < MaxClock
    /\ last = NoCall
    /\ now' = now + 1
    /\ UNCHANGED <<questions, answers, issued, last, scenario, tasks>>

\* the caller takes the result of the handler call; the next request is served
\* after it
Respond ==
    /\ last # NoCall
    /\ last' = NoCall
    /\ UNCHANGED <<questions, answers, issued, now, scenario, tasks>>

\* faulty variant: the handler calling the store operation again when it
\* failed (a failed call leaves the tables as they were, so the second call
\* has the outcomes of the first)
await_retried(outcomes) ==
    { [o |-> o, calls |-> 1, queried |-> o.queried] :
        o \in { x \in outcomes : x.res.tag = "Ok" } }
    \cup
    { [o |-> o[2], calls |-> 2, queried |-> o[1].queried + o[2].queried] :
        o \in { x \in outcomes : x.res.tag = "Err" } \X outcomes }

\* dao.operation(..).await in a handler: the one call of the store operation,
\* whose outcome is one of outcomes
await(outcomes) == { [o |-> o, calls |-> 1, queried |-> o.queried] : o \in outcomes }

\* one handler call: the store call c, then the handler's mapping h of its
\* result
Call(op, dao, arg, c, h) ==
    /\ questions' = c.o.questions
    /\ answers' = c.o.answers
    /\ issued' = c.o.issued
    /\ last' = [op |-> op, dao |-> dao, arg |-> arg, calls |-> c.calls,
                queried |-> c.queried, dberr |-> c.o.dberr, fault |-> c.o.fault,
                dbres |-> c.o.res, res |-> h.res, logged |-> h.logged]
    /\ scenario' = ScenarioAfter(scenario, last')
    /\ UNCHANGED <<now, tasks>>

CreateQuestion ==
    /\ last = NoCall
    /\ \E question \in Questions :
            \E c \in await(QuestionsDaoImpl_create_question(question)) :
                Call("create_question", "impl", question, c, create_question(c.o.res))

ReadQuestions ==
    /\ last = NoCall
    /\ \E c \in await(QuestionsDaoImpl_get_questions) :
            Call("read_questions", "impl", <<>>, c, read_questions(c.o.res))

DeleteQuestion ==
    /\ last = NoCall
    /\ \E id \in IdStrings :
            \E c \in await(QuestionsDaoImpl_delete_question(id)) :
                Call("delete_question", "impl", id, c, delete_question(c.o.res))

CreateAnswer ==
    /\ last = NoCall
    /\ \E answer \in AnswerInputs :
            \E c \in await(AnswersDaoImpl_create_answer(answer)) :
                Call("create_answer", "impl", answer, c, create_answer(c.o.res))

ReadAnswers ==
    /\ last = NoCall
    /\ \E id \in IdStrings :
            \E c \in await(AnswersDaoImpl_get_answers(id)) :
                Call("read_answers", "impl", id, c, read_answers(c.o.res))

DeleteAnswer ==
    /\ last = NoCall
    /\ \E id \in IdStrings :
            \E c \in await(AnswersDaoImpl_delete_answer(id)) :
                Call("delete_answer", "impl", id, c, delete_answer(c.o.res))

\* the handlers over the test doubles
MockCreateQuestion ==
    /\ last = NoCall
    /\ \E c \in await(QuestionsDaoMock_create_question) :
            Call("create_question", "mock", <<>>, c, create_question(c.o.res))

MockReadQuestions ==
    /\ last = NoCall
    /\ \E c \in await(QuestionsDaoMock_get_questions) :
            Call("read_questions", "mock", <<>>, c, read_questions(c.o.res))

MockDeleteQuestion ==
    /\ last = NoCall
    /\ \E c \in await(QuestionsDaoMock_delete_question) :
            Call("delete_question", "mock", <<>>, c, delete_question(c.o.res))

MockCreateAnswer ==
    /\ last = NoCall
    /\ \E c \in await(AnswersDaoMock_create_answer) :
            Call("create_answer", "mock", <<>>, c, create_answer(c.o.res))

MockReadAnswers ==
    /\ last = NoCall
    /\ \E c \in await(AnswersDaoMock_get_answers) :
            Call("read_answers", "mock", <<>>, c, read_answers(c.o.res))

MockDeleteAnswer ==
    /\ last = NoCall
    /\ \E c \in await(AnswersDaoMock_delete_answer) :
            Call("delete_answer", "mock", <<>>, c, delete_answer(c.o.res))

\* a request served by the router: the handler of handlers/mod.rs bound to
\* the route answers with body; it is handed no data-access object
Route(route, arg, body) ==
    /\ last' = [NoCall EXCEPT !.op = route, !.arg = arg, !.res = Ok(body)]
    /\ scenario' = ScenarioAfter(scenario, last')
    /\ UNCHANGED <<questions, answers, issued, now, tasks>>

PostQuestion ==
    /\ last = NoCall
    /\ \E question \in Questions :
            Route("POST /question", question, handlers_create_question(question))

GetQuestions ==
    /\ last = NoCall
    /\ Route("GET /questions", <<>>, handlers_read_questions)

DeleteQuestionRoute ==
    /\ last = NoCall
    /\ \E question_uuid \in IdStrings :
            Route("DELETE /question", question_uuid, handlers_delete_question(question_uuid))

PostAnswer ==
    /\ last = NoCall
    /\ \E answer \in AnswerInputs :
            Route("POST /answer", answer, handlers_create_answer(answer))

GetAnswers ==
    /\ last = NoCall
    /\ Route("GET /answers", <<>>, handlers_read_answers)

DeleteAnswerRoute ==
    /\ last = NoCall
    /\ \E answer_uuid \in IdStrings :
            Route("DELETE /answer", answer_uuid, handlers_delete_answer(answer_uuid))

Next ==
    \/ Tick
    \/ Respond
    \/ CreateQuestion
    \/ ReadQuestions
    \/ DeleteQuestion
    \/ CreateAnswer
    \/ ReadAnswers
    \/ DeleteAnswer
    \/ MockCreateQuestion
    \/ MockReadQuestions
    \/ MockDeleteQuestion
    \/ MockCreateAnswer
    \/ MockReadAnswers
    \/ MockDeleteAnswer
    \/ PostQuestion
    \/ GetQuestions
    \/ DeleteQuestionRoute
    \/ PostAnswer
    \/ GetAnswers
    \/ DeleteAnswerRoute

Spec == Init /\ [][Next]_vars

(* ----------------------- two requests at once -------------------------- *)

\* the question both requests post: two creates of it differ in what the
\* database generates only
Posted == { [title |-> Str("t"), description |-> Str("d")] }

\* the question both requests name
Contended == { uuid_to_string(UuidOf(1)) }

\* task t takes a request: the handler runs up to the .await of its statement;
\* overlap tells whether the call of the other task was under way then
Begin(t, op, arg) ==
    /\ tasks[t].pc = "idle"
    /\ tasks' = [u \in Tasks |->
                    IF u = t
                    THEN [Idle EXCEPT !.pc = "called", !.op = op, !.arg = arg,
                                      !.overlap = \E v \in Tasks \ {t} :
                                                    tasks[v].pc = "called"]
                    ELSE [tasks[u] EXCEPT !.overlap = (tasks[u].pc = "called")]]
    /\ UNCHANGED <<questions, answers, issued, now, last, scenario>>

BeginCreateQuestion ==
    \E t \in Tasks : \E question \in Posted : Begin(t, "create_question", question)

BeginCreateAnswer ==
    \E t \in Tasks : \E q \in Contended : \E c \in Contents :
        Begin(t, "create_answer", [question_uuid |-> q, content |-> c])

BeginDeleteQuestion ==
    \E t \in Tasks : \E question_uuid \in Contended :
        Begin(t, "delete_question", question_uuid)

\* the statement of task t is executed by the database, in one step, and the
\* handler maps its result
Finish(t, c, h) ==
    /\ questions' = c.o.questions
    /\ answers' = c.o.answers
    /\ issued' = c.o.issued
    /\ tasks' = [tasks EXCEPT ![t].pc = "returned", ![t].fault = c.o.fault,
                              ![t].dbres = c.o.res, ![t].res = h.res]
    /\ UNCHANGED <<now, last, scenario>>

FinishCreateQuestion ==
    \E t \in Tasks :
        /\ tasks[t].pc = "called"
        /\ tasks[t].op = "create_question"
        /\ \E c \in await(QuestionsDaoImpl_create_question(tasks[t].arg)) : Finish(t, c, create_question(c.o.res))

FinishCreateAnswer ==
    \E t \in Tasks :
        /\ tasks[t].pc = "called"
        /\ tasks[t].op = "create_answer"
        /\ \E c \in await(AnswersDaoImpl_create_answer(tasks[t].arg)) : Finish(t, c, create_answer(c.o.res))

FinishDeleteQuestion ==
    \E t \in Tasks :
        /\ tasks[t].pc = "called"
        /\ tasks[t].op = "delete_question"
        /\ \E c \in await(QuestionsDaoImpl_delete_question(tasks[t].arg)) : Finish(t, c, delete_question(c.o.res))

\* the caller of task t takes its result
Return ==
    \E t \in Tasks :
        /\ tasks[t].pc = "returned"
        /\ tasks' = [tasks EXCEPT ![t] = Idle]
        /\ UNCHANGED <<questions, answers, issued, now, last, scenario>>

NextConc ==
    \/ Tick
    \/ BeginCreateQuestion
    \/ BeginCreateAnswer
    \/ BeginDeleteQuestion
    \/ FinishCreateQuestion
    \/ FinishCreateAnswer
    \/ FinishDeleteQuestion
    \/ Return

SpecConc == Init /\ [][NextConc]_vars

(* ------------------------------- claims ------------------------------- *)

ErrKind(r, kind) == r.tag = "Err" /\ r.err.kind = kind

OtherHandlers == { "create_question", "read_questions", "delete_question",
                   "read_answers", "delete_answer" }

\* the six handlers
Handlers == OtherHandlers \cup {"create_answer"}

\* C1: whenever the answer store's create_answer returns Err(InvalidUUID(msg)),
\* the create_answer handler returns Err(BadRequest(msg)) with the same msg.
C1_InvalidUuidIsBadRequest ==
    (last.op = "create_answer" /\ ErrKind(last.dbres, "InvalidUUID"))
        => last.res = Err(BadRequest(last.dbres.err.msg))

\* C1 happens: the DAO refused a malformed question_uuid and the handler
\* answered BadRequest with the DAO's message
C1_Witness ==
    /\ last.op = "create_answer"
    /\ last.dao = "impl"
    /\ ErrKind(last.dbres, "InvalidUUID")
    /\ Len(last.dbres.err.msg) > 1
    /\ ErrKind(last.res, "BadRequest")

\* C2: in create_question, read_questions, delete_question, read_answers and
\* delete_answer every store error, InvalidUUID included, becomes InternalError
\* with the fixed message, never BadRequest.
C2_OtherHandlersFoldErrors ==
    (last.op \in OtherHandlers /\ last.dbres.tag = "Err")
        => /\ last.res = Err(default_internal_error)
           /\ ~ErrKind(last.res, "BadRequest")

\* C2 happens: delete_question was refused with InvalidUUID by the DAO and
\* answered InternalError
C2_Witness ==
    /\ last.op = "delete_question"
    /\ last.dao = "impl"
    /\ ErrKind(last.dbres, "InvalidUUID")
    /\ ErrKind(last.res, "InternalError")

\* C3: in all six handlers Err(Other(cause)) becomes InternalError with exactly
\* "Something went wrong! Please try again.", and the cause's text is no part
\* of it.
C3_OtherIsFixedInternalError ==
    (last.op \in Handlers /\ ErrKind(last.dbres, "Other"))
        => /\ last.res = Err(InternalError(Str("Something went wrong! Please try again.")))
           /\ ~Contains(last.res.err.msg, last.dbres.err.cause.text)

\* C3 happens: a store failed with Other("oh no!") and the handler returned
\* InternalError
C3_Witness ==
    /\ last.op = "read_questions"
    /\ ErrKind(last.dbres, "Other")
    /\ last.dbres.err.cause.text = Str("oh no!")
    /\ ErrKind(last.res, "InternalError")

\* C4: in all six handlers Ok(v) from the store is returned as Ok(v), v
\* unchanged: the same record, the same sequence in the same order, or unit.
C4_OkIsPropagated ==
    (last.op \in Handlers /\ last.dbres.tag = "Ok") => last.res = last.dbres

\* C4 happens: read_answers returned the two answers the store listed
C4_Witness ==
    /\ last.op = "read_answers"
    /\ last.dao = "impl"
    /\ last.dbres.tag = "Ok"
    /\ Len(last.dbres.val) = 2
    /\ last.res.tag = "Ok"

\* the store operations that take an identifier, by the handler that calls them
IdOps == { "delete_question", "create_answer", "delete_answer", "read_answers" }

\* the identifier text a call of the Impl DAOs was given
IdArg(l) == IF l.op = "create_answer" THEN l.arg.question_uuid ELSE l.arg

ImplCall(l, ops) == l.dao = "impl" /\ l.op \in ops

WellFormed == IdStrings \ Malformed

\* C5: for every text that is no well-formed UUID, delete_question,
\* create_answer, delete_answer and get_answers fail with InvalidUUID without
\* sending a statement, and the stored questions and answers stay as they were.
C5_MalformedFailsBeforeStore ==
    [][ (ImplCall(last', IdOps) /\ IdArg(last') \in Malformed)
            => /\ ErrKind(last'.dbres, "InvalidUUID")
               /\ last'.queried = 0
               /\ questions' = questions
               /\ answers' = answers ]_vars

\* C5 happens: a store holding a question and an answer refused "not-a-uuid"
C5_Witness ==
    /\ ImplCall(last, {"delete_answer"})
    /\ last.arg = NotAUuid
    /\ ErrKind(last.dbres, "InvalidUUID")
    /\ last.queried = 0
    /\ questions # {}
    /\ answers # {}

\* C6: create_answer through AnswersDaoImpl and the handler, with a
\* question_uuid that references no stored question (malformed, or well-formed
\* and absent, so that the insert hits the foreign key): BadRequest whose
\* message contains the question_uuid text as given, and no answer is stored.
C6_UnknownQuestionIsBadRequest ==
    [][ ( /\ ImplCall(last', {"create_answer"})
          /\ last'.dberr \in {NoDbError, ForeignKeyError}
          /\ ~\E q \in questions : q.question_uuid = parse_str(last'.arg.question_uuid) )
            => /\ ErrKind(last'.res, "BadRequest")
               /\ Contains(last'.res.err.msg, last'.arg.question_uuid)
               /\ answers' = answers ]_vars

\* C6 happens: a well-formed question_uuid that no stored question has, with
\* another question stored, was answered BadRequest after the insert failed
C6_Witness ==
    /\ ImplCall(last, {"create_answer"})
    /\ last.arg.question_uuid \in WellFormed
    /\ last.queried = 1
    /\ last.dberr = ForeignKeyError
    /\ questions # {}
    /\ ~\E q \in questions : q.question_uuid = parse_str(last.arg.question_uuid)
    /\ ErrKind(last.res, "BadRequest")

\* C7: QuestionsDao.delete_question and AnswersDao.delete_answer with a
\* well-formed UUID that matches no stored row return Ok(()), whatever the
\* store holds (the DELETE statement having run).
C7_DeleteOfMissingRowIsOk ==
    [][ ( /\ ImplCall(last', {"delete_question", "delete_answer"})
          /\ last'.arg \in WellFormed
          /\ last'.dberr = NoDbError
          /\ last'.op = "delete_question"
                => ~\E q \in questions : q.question_uuid = parse_str(last'.arg)
          /\ last'.op = "delete_answer"
                => ~\E a \in answers : a.answer_uuid = parse_str(last'.arg) )
            => last'.dbres = Ok(Unit) ]_vars

\* C7 happens: delete_question of an identifier that was never issued returned
\* Ok(()) while questions were stored
C7_Witness ==
    /\ ImplCall(last, {"delete_question"})
    /\ last.arg \in WellFormed
    /\ parse_str(last.arg) \notin issued
    /\ questions # {}
    /\ last.queried = 1
    /\ last.dbres = Ok(Unit)

\* C8 (as claimed): every answer get_answers(q) returns has question_uuid equal
\* to the text q.
C8_AnswersCarryTheArgument ==
    (ImplCall(last, {"read_answers"}) /\ last.dbres.tag = "Ok")
        => \A i \in 1..Len(last.dbres.val) : last.dbres.val[i].question_uuid = last.arg

\* C8 (amended): every answer get_answers(q) returns has as question_uuid the
\* canonical text (lower case, hyphenated) of the UUID that q denotes; that is
\* q itself when q is written canonically.
C8_AnswersCarryTheCanonicalArgument ==
    (ImplCall(last, {"read_answers"}) /\ last.dbres.tag = "Ok")
        => \A i \in 1..Len(last.dbres.val) :
              /\ last.dbres.val[i].question_uuid = uuid_to_string(parse_str(last.arg))
              /\ last.arg \in { uuid_to_string(u) : u \in UuidPool }
                    => last.dbres.val[i].question_uuid = last.arg

\* C8 happens: get_answers returned an answer for a question named in another
\* spelling
C8_Witness ==
    /\ ImplCall(last, {"read_answers"})
    /\ last.dbres.tag = "Ok"
    /\ Len(last.dbres.val) > 0
    /\ last.arg \in Spellings

\* what C9 says of every create_question that returns a record d, but for the
\* distinctness of created_at
C9_Created(d, question) ==
    /\ d.title = question.title
    /\ d.description = question.description
    /\ d.question_uuid # <<>>
    /\ d.created_at # <<>>
    /\ parse_str(d.question_uuid) \notin issued
    /\ \A q \in questions : QuestionDetail(q).question_uuid # d.question_uuid

\* C9 (as claimed): create_question returns the input's title and description
\* with a non-empty question_uuid and created_at, each different from those of
\* the earlier calls.
C9_UuidAndCreatedAtDistinct ==
    [][ (ImplCall(last', {"create_question"}) /\ last'.dberr = NoDbError)
            => /\ last'.dbres.tag = "Ok"
               /\ C9_Created(last'.dbres.val, last'.arg)
               /\ \A q \in questions :
                     QuestionDetail(q).created_at # last'.dbres.val.created_at ]_vars

\* C9 (amended): create_question returns the input's title and description with
\* a non-empty question_uuid and created_at; the question_uuid differs from
\* that of every earlier call.
C9_UuidDistinct ==
    [][ (ImplCall(last', {"create_question"}) /\ last'.dberr = NoDbError)
            => /\ last'.dbres.tag = "Ok"
               /\ C9_Created(last'.dbres.val, last'.arg) ]_vars

\* C9 happens: a second question was created while the first is stored
C9_Witness ==
    /\ ImplCall(last, {"create_question"})
    /\ last.dbres.tag = "Ok"
    /\ Cardinality(questions) >= 2

\* a foreign-key violation as the driver reports it
IsForeignKeyViolation(e) ==
    e.variant = "Database" /\ e.code = <<FOREIGN_KEY_VIOLATION>>

C11_StoreErrorsAreLogged ==
    (last.op \in Handlers /\ last.dbres.tag = "Err")
        => last.logged = <<last.dbres.err>>

\* C12: a handler invocation has called one store operation once when it
\* returns, whether the operation succeeded or failed; the operation sent at
\* most one statement, and when it failed the handler returns an error.
C12_OneStoreCallPerInvocation ==
    last.op \in Handlers
        => /\ last.calls = 1
           /\ last.queried <= 1
           /\ last.dbres.tag = "Err" => last.res.tag = "Err"

\* C12 happens: a store operation whose statement failed was not called again
C12_Witness ==
    /\ last.op \in Handlers
    /\ last.dao = "impl"
    /\ last.fault
    /\ last.calls = 1
    /\ last.queried = 1
    /\ last.res.tag = "Err"

\* C13: under any interleaving of create_answer and delete_question on one
\* question, an answer enters the store only with the question_uuid of a
\* question stored at that moment, and a record that create_answer returns
\* is that of the answer stored then.
C13_AnswersReferToStoredQuestion ==
    [][ /\ \A a \in answers' \ answers :
            \E q \in questions : q.question_uuid = a.question_uuid
        /\ \A t \in Tasks :
            (/\ tasks[t].pc = "called"
             /\ tasks[t].op = "create_answer"
             /\ tasks'[t].pc = "returned"
             /\ tasks'[t].dbres.tag = "Ok")
                => /\ \E q \in questions : uuid_to_string(q.question_uuid)
                                                = tasks'[t].dbres.val.question_uuid
                   /\ \E a \in answers' \ answers :
                        AnswerDetail(a) = tasks'[t].dbres.val ]_vars

\* C13 happens: create_answer and delete_question on one question were under
\* way together; the answer was stored, and the delete then took the question
\* and the answer out
C13_Witness ==
    \E t \in Tasks : \E u \in Tasks \ {t} :
        /\ tasks[t].pc = "returned" /\ tasks[u].pc = "returned"
        /\ tasks[t].overlap \/ tasks[u].overlap
        /\ tasks[t].op = "create_answer" /\ tasks[t].dbres.tag = "Ok"
        /\ tasks[u].op = "delete_question" /\ tasks[u].dbres = Ok(Unit)
        /\ parse_str(tasks[u].arg) = parse_str(tasks[t].arg.question_uuid)
        /\ \A q \in questions : q.question_uuid # parse_str(tasks[u].arg)
        /\ \A a \in answers :
            uuid_to_string(a.answer_uuid) # tasks[t].dbres.val.answer_uuid

\* a row enters a table only in a create call that returns it, under an
\* identifier not issued before, and a stored row keeps its fields
C14_CreatedOnceAndKept ==
    /\ \A q \in questions' \ questions :
        /\ ImplCall(last', {"create_question"})
        /\ last'.dbres = Ok(QuestionDetail(q))
        /\ q.question_uuid \notin issued
        /\ questions' = questions \cup {q}
    /\ \A a \in answers' \ answers :
        /\ ImplCall(last', {"create_answer"})
        /\ last'.dbres = Ok(AnswerDetail(a))
        /\ a.answer_uuid \notin issued
        /\ answers' = answers \cup {a}
    /\ \A q \in questions : \A r \in questions' :
            q.question_uuid = r.question_uuid => q = r
    /\ \A a \in answers : \A r \in answers' :
            a.answer_uuid = r.answer_uuid => a = r

\* a question leaves its table only in a delete_question call that names it
C14_QuestionsLeaveByDelete ==
    \A q \in questions \ questions' :
        ImplCall(last', {"delete_question"}) /\ parse_str(last'.arg) = q.question_uuid

\* C14 (as claimed): a stored QuestionDetail or AnswerDetail is created once
\* by a create operation, its fields never change, and it leaves the store
\* only through a delete operation that names its identifier.
C14_RemovedOnlyByItsOwnDelete ==
    [][ /\ C14_CreatedOnceAndKept
        /\ C14_QuestionsLeaveByDelete
        /\ \A a \in answers \ answers' :
            ImplCall(last', {"delete_answer"}) /\ parse_str(last'.arg) = a.answer_uuid ]_vars

\* C14 (amended): a stored QuestionDetail or AnswerDetail is created once by a
\* create operation and its fields never change; a question leaves the store
\* only through a delete_question that names it, and an answer only through
\* a delete_answer that names it or a delete_question that names its
\* question.
C14_RemovedOnlyByDelete ==
    [][ /\ C14_CreatedOnceAndKept
        /\ C14_QuestionsLeaveByDelete
        /\ \A a \in answers \ answers' :
            \/ ImplCall(last', {"delete_answer"}) /\ parse_str(last'.arg) = a.answer_uuid
            \/ ImplCall(last', {"delete_question"})
                /\ parse_str(last'.arg) = a.question_uuid ]_vars

\* C14 happens: a question was created, an answer to it was created, and the
\* delete of the question took both out of the store
C14_Witness ==
    /\ scenario.step = 4
    /\ ImplCall(last, {"delete_question"})
    /\ last.dbres = Ok(Unit)
    /\ \A q \in questions : uuid_to_string(q.question_uuid) # scenario.question_uuid
    /\ \A a \in answers : uuid_to_string(a.question_uuid) # scenario.question_uuid

\* the two tasks have each returned from a create of the same kind, and the
\* two calls were under way together
C15_BothCreated(t, u, op) ==
    /\ tasks[t].pc = "returned" /\ tasks[u].pc = "returned"
    /\ tasks[t].op = op /\ tasks[u].op = op
    /\ tasks[t].overlap \/ tasks[u].overlap

\* C15: when two create_question calls, or two create_answer calls, were
\* under way together, whichever statement ran first, each call to which
\* the database reported no error returned Ok, and two calls that returned
\* Ok returned different identifiers, and both records are stored.
C15_ConcurrentCreatesAreIndependent ==
    \A t \in Tasks : \A u \in Tasks \ {t} :
        /\ C15_BothCreated(t, u, "create_question")
            => /\ tasks[t].dbres.tag = "Err" => tasks[t].fault
               /\ (tasks[t].dbres.tag = "Ok" /\ tasks[u].dbres.tag = "Ok")
                    => /\ tasks[t].dbres.val.question_uuid # tasks[u].dbres.val.question_uuid
                       /\ \E q \in questions : QuestionDetail(q) = tasks[t].dbres.val
        /\ C15_BothCreated(t, u, "create_answer")
            => /\ tasks[t].dbres.tag = "Err"
                    => \/ tasks[t].fault
                       \/ \A q \in questions :
                            q.question_uuid # parse_str(tasks[t].arg.question_uuid)
               /\ (tasks[t].dbres.tag = "Ok" /\ tasks[u].dbres.tag = "Ok")
                    => /\ tasks[t].dbres.val.answer_uuid # tasks[u].dbres.val.answer_uuid
                       /\ \E a \in answers : AnswerDetail(a) = tasks[t].dbres.val

\* C15 happens: two create_answer calls under way together have both
\* returned Ok
C15_Witness ==
    /\ C15_BothCreated(1, 2, "create_answer")
    /\ tasks[1].overlap /\ tasks[2].overlap
    /\ tasks[1].dbres.tag = "Ok" /\ tasks[2].dbres.tag = "Ok"
    /\ Cardinality(answers) = 2

\* C16: in the sequence run with no failure of the driver, creating a
\* question returns Ok with its uuid; creating an answer with that uuid
\* returns Ok; creating an answer with question_uuid "not-a-uuid" returns
\* BadRequest; deleting that question, which still has the stored answer,
\* returns Ok with no value, and the question is gone.
C16_Scenario ==
    last # NoCall =>
        /\ scenario.step = 1
            => /\ last.res.tag = "Ok"
               /\ \E q \in questions :
                    uuid_to_string(q.question_uuid) = last.res.val.question_uuid
        /\ scenario.step = 2
            => /\ last.res.tag = "Ok"
               /\ last.res.val.question_uuid = scenario.question_uuid
               /\ \E a \in answers :
                    uuid_to_string(a.answer_uuid) = last.res.val.answer_uuid
        /\ scenario.step = 3
            => /\ ErrKind(last.res, "BadRequest")
               /\ \E a \in answers :
                    uuid_to_string(a.question_uuid) = scenario.question_uuid
        /\ scenario.step = 4
            => /\ last.res = Ok(Unit)
               /\ \A q \in questions :
                    uuid_to_string(q.question_uuid) # scenario.question_uuid

\* C16 happens: the sequence was run to its end
C16_Witness ==
    /\ scenario.step = 4
    /\ last.op = "delete_question"
    /\ last.res = Ok(Unit)

\* C17: get_answers with a well-formed UUID that no stored question has
\* returns Ok with no answers, where create_answer with the same reference
\* returns InvalidUUID (no failure of the driver in either).
C17_UnknownQuestionHasNoAnswers ==
    (/\ ImplCall(last, {"read_answers", "create_answer"})
     /\ IdArg(last) \in WellFormed
     /\ ~last.fault
     /\ \A q \in questions : q.question_uuid # parse_str(IdArg(last)))
        => IF last.op = "read_answers"
           THEN last.dbres = Ok(<<>>)
           ELSE ErrKind(last.dbres, "InvalidUUID")

\* C17 happens: answers are stored, and get_answers for a question that is
\* not stored returned none of them
C17_Witness ==
    /\ ImplCall(last, {"read_answers"})
    /\ last.arg \in WellFormed
    /\ \A q \in questions : q.question_uuid # parse_str(last.arg)
    /\ answers # {}
    /\ last.dbres = Ok(<<>>)

\* C18: delete_answer(a) with a well-formed a (and no failure of the driver)
\* returns Ok, takes the answer a out of the store if it is there, and leaves
\* every other answer and every question as it was; where a is not stored,
\* as after a first delete_answer(a), it returns Ok and changes nothing.
C18_DeleteAnswerRemovesOnlyIt ==
    [][ (/\ ImplCall(last', {"delete_answer"})
         /\ last'.arg \in WellFormed
         /\ ~last'.fault)
            => /\ last'.dbres = Ok(Unit)
               /\ answers' = { a \in answers : a.answer_uuid # parse_str(last'.arg) }
               /\ questions' = questions
               /\ issued' = issued
               /\ (\A a \in answers : a.answer_uuid # parse_str(last'.arg))
                    => answers' = answers ]_vars

\* C18 happens: delete_answer returned Ok for an issued identifier that is no
\* longer stored, and another answer and its question are still stored
C18_Witness ==
    /\ ImplCall(last, {"delete_answer"})
    /\ last.arg \in WellFormed
    /\ last.dbres = Ok(Unit)
    /\ parse_str(last.arg) \in issued
    /\ \A a \in answers : a.answer_uuid # parse_str(last.arg)
    /\ \A q \in questions : q.question_uuid # parse_str(last.arg)
    /\ \E a \in answers : \E q \in questions : a.question_uuid = q.question_uuid

\* the routes of main.rs
Routes == { "POST /question", "GET /questions", "DELETE /question",
            "POST /answer", "GET /answers", "DELETE /answer" }

\* what a route answers to a request with nothing in it
C19_Fixed(route) ==
    CASE route = "POST /question" ->
            handlers_create_question([title |-> <<>>, description |-> <<>>])
      [] route = "GET /questions" -> handlers_read_questions
      [] route = "POST /answer" ->
            handlers_create_answer([question_uuid |-> <<>>, content |-> <<>>])
      [] route = "GET /answers" -> handlers_read_answers
      [] OTHER -> Unit

\* the records of the response body of a route
C19_Records(route, body) ==
    CASE route \in {"POST /question", "POST /answer"} -> {body}
      [] route \in {"GET /questions", "GET /answers"} -> { body[i] : i \in 1..Len(body) }
      [] OTHER -> {}

\* C19: a handler that main.rs routes to calls no store operation and leaves
\* the store as it is: whatever Question, Answer or identifier the request
\* carries and whatever the store holds, it answers Ok with the same fixed
\* body, whose records carry the nil UUID, or with unit for the two deletes.
C19_RoutedHandlersAreFixed ==
    [][ last'.op \in Routes
            => /\ last'.calls = 0
               /\ last'.queried = 0
               /\ UNCHANGED <<questions, answers, issued>>
               /\ last'.res.tag = "Ok"
               /\ last'.res.val = C19_Fixed(last'.op)
               /\ \A d \in C19_Records(last'.op, last'.res.val) :
                    /\ d.question_uuid = NilUuidText
                    /\ last'.op \in {"POST /answer", "GET /answers"}
                        => d.answer_uuid = NilUuidText ]_vars

\* C19 happens: a question is stored, and POST /question with the question
\* titled "test title" got the placeholder record
C19_Witness ==
    /\ last.op = "POST /question"
    /\ last.arg.title = Str("test title")
    /\ questions # {}
    /\ last.res.tag = "Ok"
    /\ last.res.val.question_uuid = NilUuidText

====
